---- MODULE Spec2Model ----
(***************************************************************************)
(* Model of src/app.py: an interactive evaluator of infix arithmetic       *)
(* expressions.  A line read by app_main goes through                      *)
(*   validate_expression -> insert_assumed_multiplication -> tokenize      *)
(*   -> shunting_yard -> evaluate_postfix.                                 *)
(* A Python str is modelled as a sequence of one-character strings, a      *)
(* token (a Python str as well) as such a sequence, a list of tokens as a  *)
(* sequence of tokens.  A raised exception is modelled as the name of its  *)
(* kind; None is the absence of a value or of an exception.                *)
(***************************************************************************)
EXTENDS Integers, Sequences, FiniteSets, TLC

\* ------------------------------------------------------------------------
\* Bounds of the model
\* ------------------------------------------------------------------------
\* longest input line typed at the prompt (Spec)
\* the strings tokenized statement by statement have at most MaxStepLen
\* characters
MaxStepLen == 4

MaxLen == 4
\* longest well-formed expression typed at the prompt (SpecExpr)
MaxExprLen == 6
\* longest token list handed to shunting_yard / evaluate_postfix (SpecCalls)
MaxTokens == 4
\* largest numerator/denominator on which arithmetic is carried out exactly
MaxMag == 10000

None == "None"
\* the value of a float variable that holds no float
NoValue == [k |-> "none"]

\* ------------------------------------------------------------------------
\* Module constants (app.py lines 7-9) and character classes
\* ------------------------------------------------------------------------
BASE_OPERATORS == {"+", "-", "*", "/", "^"}
DIGITS == {"0", "1", "2", "3", "4", "5", "6", "7", "8", "9", "."}
PARENTHESIS == {"(", ")"}

\* valid_chars of validate_expression (line 17): the only whitespace is " "
valid_chars ==
    {"0", "1", "2", "3", "4", "5", "6", "7", "8", "9",
     "+", "-", "*", "/", "(", ")", ".", "^", " "}

\* the regular-expression class \d
ReDigit == {"0", "1", "2", "3", "4", "5", "6", "7", "8", "9"}
\* the regular-expression class \s, also what str.split() splits on
ReSpace == {" ", "\t", "\n", "\r", "\f"}

\* ------------------------------------------------------------------------
\* validate_expression (lines 12-39)
\* ------------------------------------------------------------------------
\* re.search(r"\d\s+\d", expression): a digit, one or more whitespace
\* characters, a digit
AdjacentNumbersSearch(expression) ==
    \E i \in 1..Len(expression) : \E j \in (i + 2)..Len(expression) :
        /\ expression[i] \in ReDigit
        /\ expression[j] \in ReDigit
        /\ \A k \in (i + 1)..(j - 1) : expression[k] \in ReSpace

\* ParenthesesLoop without the check of line 34: only the final count decides
RECURSIVE ParenthesesLoop_EndOnly(_, _, _)
ParenthesesLoop_EndOnly(expression, i, parentheses_count) ==
    IF i > Len(expression)
    THEN IF parentheses_count > 0 THEN "UnbalancedParentheses" ELSE None
    ELSE LET char == expression[i]
             count == IF char = "(" THEN parentheses_count + 1
                      ELSE IF char = ")" THEN parentheses_count - 1
                      ELSE parentheses_count
         IN  ParenthesesLoop_EndOnly(expression, i + 1, count)

\* the loop of lines 27-37 from character i on, parentheses_count being the
\* count so far; the result is the exception raised, or None
RECURSIVE ParenthesesLoop(_, _, _)
ParenthesesLoop(expression, i, parentheses_count) ==
    IF i > Len(expression)
    THEN IF parentheses_count > 0 THEN "UnbalancedParentheses" ELSE None
    ELSE LET char == expression[i]
             count == IF char = "(" THEN parentheses_count + 1
                      ELSE IF char = ")" THEN parentheses_count - 1
                      ELSE parentheses_count
         IN  IF count < 0 THEN "UnbalancedParentheses"
             ELSE ParenthesesLoop(expression, i + 1, count)

\* validate_expression with the parentheses counted before the characters
\* are checked
validate_expression_BalanceFirst(expression) ==
    IF expression = << >> THEN "EmptyInput"
    ELSE IF ParenthesesLoop(expression, 1, 0) # None THEN "UnbalancedParentheses"
    ELSE IF \E i \in 1..Len(expression) : expression[i] \notin valid_chars
    THEN "IllegalCharacter"
    ELSE IF AdjacentNumbersSearch(expression) THEN "AdjacentNumbers"
    ELSE None

\* the exception validate_expression raises, or None when it returns True:
\*   line 15 "The expression is empty"                       EmptyInput
\*   line 20 "The expression contains invalid characters"    IllegalCharacter
\*   line 23 "two numbers are separated only by whitespace"  AdjacentNumbers
\*   lines 35, 37 "mismatched ')' / '(' parentheses"    UnbalancedParentheses
validate_expression(expression) ==
    IF expression = << >> THEN "EmptyInput"
    ELSE IF \E i \in 1..Len(expression) : expression[i] \notin valid_chars
    THEN "IllegalCharacter"
    ELSE IF AdjacentNumbersSearch(expression) THEN "AdjacentNumbers"
    ELSE ParenthesesLoop(expression, 1, 0)

\* ------------------------------------------------------------------------
\* insert_assumed_multiplication (lines 42-55)
\* ------------------------------------------------------------------------
\* "".join(expression.split()): every whitespace character is removed
StripWhitespace(expression) ==
    SelectSeq(expression, LAMBDA c : c \notin ReSpace)

\* re.sub with count=1: the leftmost match only is replaced
ReSubPair_FirstOnly(s, i, A, B) ==
    LET matches == {j \in i..(Len(s) - 1) : s[j] \in A /\ s[j + 1] \in B}
    IN  IF matches = {} THEN SubSeq(s, i, Len(s))
        ELSE LET j == CHOOSE m \in matches : \A n \in matches : m <= n
             IN  SubSeq(s, i, j) \o << "*" >> \o SubSeq(s, j + 1, Len(s))

\* re.sub(r"(A)(B)", r"\1*\2", s) for one-character classes A and B, from
\* position i on: leftmost non-overlapping matches, the scan resuming after
\* the matched pair
RECURSIVE ReSubPair(_, _, _, _)
ReSubPair(s, i, A, B) ==
    IF i > Len(s) THEN << >>
    ELSE IF i < Len(s) /\ s[i] \in A /\ s[i + 1] \in B
    THEN << s[i], "*", s[i + 1] >> \o ReSubPair(s, i + 2, A, B)
    ELSE << s[i] >> \o ReSubPair(s, i + 1, A, B)

\* the three substitutions first, the whitespace removed last
insert_assumed_multiplication_StripLast(expression) ==
    LET case1 == ReSubPair(expression, 1, ReDigit, {"("})
        case2 == ReSubPair(case1, 1, {")"}, ReDigit)
        case3 == ReSubPair(case2, 1, {")"}, {"("})
    IN  StripWhitespace(case3)

insert_assumed_multiplication(expression) ==
    LET stripped == StripWhitespace(expression)
        case1 == ReSubPair(stripped, 1, ReDigit, {"("})
        case2 == ReSubPair(case1, 1, {")"}, ReDigit)
        case3 == ReSubPair(case2, 1, {")"}, {"("})
    IN  case3

\* ------------------------------------------------------------------------
\* tokenize (lines 58-92)
\* ------------------------------------------------------------------------
\* cursor_end of lines 82-84: the first position at or after cursor_end
\* that is past the string or holds no DIGITS character (0-based)
RECURSIVE NumberEnd(_, _)
NumberEnd(expression, cursor_end) ==
    IF cursor_end < Len(expression) /\ expression[cursor_end + 1] \in DIGITS
    THEN NumberEnd(expression, cursor_end + 1)
    ELSE cursor_end

\* the iteration with line 76 as is_infix = False: ")" is taken as one more
\* operator
TokenizeStep_ParenNotInfix(expression, t) ==
    LET char == expression[t.cursor + 1]
    IN  IF ~t.is_infix /\ char = "-"
        THEN [t EXCEPT !.yielded = Append(@, << "~" >>), !.cursor = @ + 1]
        ELSE IF char \in BASE_OPERATORS \/ char \in PARENTHESIS
        THEN [cursor |-> t.cursor + 1,
              is_infix |-> FALSE,
              yielded |-> Append(t.yielded, << char >>)]
        ELSE IF char \in DIGITS
        THEN LET cursor_end == NumberEnd(expression, t.cursor + 1)
             IN  [cursor |-> cursor_end,
                  is_infix |-> TRUE,
                  yielded |-> Append(t.yielded,
                                     SubSeq(expression, t.cursor + 1, cursor_end))]
        ELSE [t EXCEPT !.is_infix = FALSE, !.cursor = @ + 1]

\* the iteration without line 92: an unrecognized character is not skipped
TokenizeStep_StaysOnUnrecognized(expression, t) ==
    LET char == expression[t.cursor + 1]
    IN  IF ~t.is_infix /\ char = "-"
        THEN [t EXCEPT !.yielded = Append(@, << "~" >>), !.cursor = @ + 1]
        ELSE IF char \in BASE_OPERATORS \/ char \in PARENTHESIS
        THEN [cursor |-> t.cursor + 1,
              is_infix |-> (char = ")"),
              yielded |-> Append(t.yielded, << char >>)]
        ELSE IF char \in DIGITS
        THEN LET cursor_end == NumberEnd(expression, t.cursor + 1)
             IN  [cursor |-> cursor_end,
                  is_infix |-> TRUE,
                  yielded |-> Append(t.yielded,
                                     SubSeq(expression, t.cursor + 1, cursor_end))]
        ELSE [t EXCEPT !.is_infix = FALSE]

\* one iteration of the while loop (lines 64-92); t is the generator's state:
\* cursor (0-based), is_infix and the tokens yielded so far
TokenizeStep(expression, t) ==
    LET char == expression[t.cursor + 1]
    IN  IF ~t.is_infix /\ char = "-"
        THEN [t EXCEPT !.yielded = Append(@, << "~" >>), !.cursor = @ + 1]
        ELSE IF char \in BASE_OPERATORS \/ char \in PARENTHESIS
        THEN [cursor |-> t.cursor + 1,
              is_infix |-> (char = ")"),
              yielded |-> Append(t.yielded, << char >>)]
        ELSE IF char \in DIGITS
        THEN LET cursor_end == NumberEnd(expression, t.cursor + 1)
             IN  [cursor |-> cursor_end,
                  is_infix |-> TRUE,
                  yielded |-> Append(t.yielded,
                                     SubSeq(expression, t.cursor + 1, cursor_end))]
        ELSE [t EXCEPT !.is_infix = FALSE, !.cursor = @ + 1]

RECURSIVE TokenizeLoop(_, _)
TokenizeLoop(expression, t) ==
    IF t.cursor < Len(expression)
    THEN TokenizeLoop(expression, TokenizeStep(expression, t))
    ELSE t

\* list(tokenize(expression))
tokenize(expression) ==
    TokenizeLoop(expression,
                 [cursor |-> 0, is_infix |-> FALSE, yielded |-> << >>]).yielded

\* ------------------------------------------------------------------------
\* is_float (lines 95-101) and float()
\* ------------------------------------------------------------------------
\* Whether float(token) succeeds, for the tokens the model handles: runs of
\* DIGITS characters and operator or parenthesis characters.  Such a run
\* parses when it has at most one "." and at least one digit.  (float()
\* also takes signs, exponents, "inf", "nan" and underscores; no token of
\* the model holds one.)
is_float(token) ==
    /\ token # << >>
    /\ \A i \in 1..Len(token) : token[i] \in DIGITS
    /\ Cardinality({i \in 1..Len(token) : token[i] = "."}) <= 1
    /\ \E i \in 1..Len(token) : token[i] \in ReDigit

DigitValue ==
    ("0" :> 0) @@ ("1" :> 1) @@ ("2" :> 2) @@ ("3" :> 3) @@ ("4" :> 4) @@
    ("5" :> 5) @@ ("6" :> 6) @@ ("7" :> 7) @@ ("8" :> 8) @@ ("9" :> 9)

Abs(x) == IF x < 0 THEN -x ELSE x

RECURSIVE Gcd(_, _)
Gcd(a, b) == IF b = 0 THEN a ELSE Gcd(b, a % b)

\* A float is modelled as a fraction in lowest terms with a positive
\* denominator (rounding is not modelled), or, where the exact result is
\* out of the range of exact arithmetic or irrational, as the uninterpreted
\* term Sym(op, args) of the operation and its operands.
Rat(n, d) ==
    LET g == Gcd(Abs(n), Abs(d))
        s == IF d < 0 THEN -1 ELSE 1
    IN  [k |-> "rat", n |-> (s * n) \div g, d |-> (s * d) \div g]

Sym(op, args) == [k |-> "sym", op |-> op, args |-> args]

Exact(v) == v.k = "rat" /\ Abs(v.n) <= MaxMag /\ v.d <= MaxMag
IsZero(v) == v.k = "rat" /\ v.n = 0
IsInteger(v) == v.k = "rat" /\ v.d = 1

\* the integer written by the digits of token, "." skipped, acc so far
RECURSIVE DigitsValue(_, _, _)
DigitsValue(token, i, acc) ==
    IF i > Len(token) THEN acc
    ELSE IF token[i] = "." THEN DigitsValue(token, i + 1, acc)
    ELSE DigitsValue(token, i + 1, 10 * acc + DigitValue[token[i]])

RECURSIVE TenTo(_)
TenTo(e) == IF e = 0 THEN 1 ELSE 10 * TenTo(e - 1)

\* float(token) of a token with is_float(token)
Float(token) ==
    LET dots == {i \in 1..Len(token) : token[i] = "."}
        frac == IF dots = {} THEN 0 ELSE Len(token) - (CHOOSE i \in dots : TRUE)
    IN  Rat(DigitsValue(token, 1, 0), TenTo(frac))

\* ------------------------------------------------------------------------
\* float arithmetic used by evaluate_postfix (lines 161-179)
\* ------------------------------------------------------------------------
Neg(v) == IF v.k = "rat" THEN Rat(-v.n, v.d) ELSE Sym("~", << v >>)

Add(left, right) ==
    IF Exact(left) /\ Exact(right)
    THEN Rat(left.n * right.d + right.n * left.d, left.d * right.d)
    ELSE Sym("+", << left, right >>)

Sub(left, right) ==
    IF Exact(left) /\ Exact(right)
    THEN Rat(left.n * right.d - right.n * left.d, left.d * right.d)
    ELSE Sym("-", << left, right >>)

Mul(left, right) ==
    IF Exact(left) /\ Exact(right)
    THEN Rat(left.n * right.n, left.d * right.d)
    ELSE Sym("*", << left, right >>)

\* left / right for a right operand that is not zero
Div(left, right) ==
    IF Exact(left) /\ Exact(right)
    THEN Rat(left.n * right.d, left.d * right.n)
    ELSE Sym("/", << left, right >>)

\* b to the power e for naturals, acc the product so far; -1 when the
\* result is beyond MaxMag
RECURSIVE NatPow(_, _, _)
NatPow(b, e, acc) ==
    IF e = 0 THEN acc
    ELSE IF b <= 1 THEN b
    ELSE IF acc * b > MaxMag THEN -1
    ELSE NatPow(b, e - 1, acc * b)

\* left ** right of floats, where 0.0 ** negative has been excluded: exact
\* for an integer exponent while the result stays in range; anything else
\* (an irrational or complex power, a result out of range, for which the
\* runtime gives a rounded float or raises OverflowError) is left as the
\* uninterpreted term
Pow(left, right) ==
    IF Exact(left) /\ Exact(right) /\ IsInteger(right)
    THEN LET e == Abs(right.n)
             pn == NatPow(Abs(left.n), e, 1)
             pd == NatPow(left.d, e, 1)
             sign == IF left.n < 0 /\ e % 2 = 1 THEN -1 ELSE 1
         IN  IF pn = -1 \/ pd = -1 THEN Sym("^", << left, right >>)
             ELSE IF right.n >= 0 THEN Rat(sign * pn, pd)
             ELSE Rat(sign * pd, pn)
    ELSE Sym("^", << left, right >>)

\* ------------------------------------------------------------------------
\* shunting_yard (lines 104-150)
\* ------------------------------------------------------------------------
\* the keys of the operators table (lines 109-116)
operators == {<< "+" >>, << "-" >>, << "/" >>, << "*" >>, << "~" >>, << "^" >>}

\* the table with "*" and "/" at the precedence of "+" and "-"
precedence_Flat(token) ==
    CASE token = << "+" >> -> 10
      [] token = << "-" >> -> 10
      [] token = << "/" >> -> 10
      [] token = << "*" >> -> 10
      [] token = << "~" >> -> 30
      [] token = << "^" >> -> 30

precedence(token) ==
    CASE token = << "+" >> -> 10
      [] token = << "-" >> -> 10
      [] token = << "/" >> -> 20
      [] token = << "*" >> -> 20
      [] token = << "~" >> -> 30
      [] token = << "^" >> -> 30

\* the table with every operator Left
associativity_AllLeft(token) == "Left"

associativity(token) ==
    IF token \in {<< "~" >>, << "^" >>} THEN "Right" ELSE "Left"

Top(stack) == stack[Len(stack)]
Pop(stack) == SubSeq(stack, 1, Len(stack) - 1)

\* the condition of the while loop of lines 125-132
ShouldPop(operator_stack, token) ==
    /\ operator_stack # << >>
    /\ Top(operator_stack) # << "(" >>
    /\ \/ precedence(Top(operator_stack)) > precedence(token)
       \/ /\ precedence(Top(operator_stack)) = precedence(token)
          /\ associativity(token) = "Left"

\* the while loop without the append of line 133: what is popped is lost
RECURSIVE PopOperators_Discards(_, _)
PopOperators_Discards(y, token) ==
    IF ShouldPop(y.operator_stack, token)
    THEN PopOperators_Discards([y EXCEPT !.operator_stack = Pop(@)], token)
    ELSE y

\* the while loop of lines 125-133
RECURSIVE PopOperators(_, _)
PopOperators(y, token) ==
    IF ShouldPop(y.operator_stack, token)
    THEN PopOperators([y EXCEPT !.output_queue = Append(@, Top(y.operator_stack)),
                                !.operator_stack = Pop(@)], token)
    ELSE y

\* the while loop of lines 138-142: operator_stack[-1] of an empty list
\* raises IndexError before the assert of line 139 is evaluated
RECURSIVE PopToLeftParen(_)
PopToLeftParen(y) ==
    IF y.operator_stack = << >> THEN [y EXCEPT !.error = "IndexError"]
    ELSE IF Top(y.operator_stack) # << "(" >>
    THEN PopToLeftParen([y EXCEPT !.output_queue = Append(@, Top(y.operator_stack)),
                                  !.operator_stack = Pop(@)])
    ELSE y

\* the loop body without the pop of line 144: the matching "(" stays
ShuntingYardToken_KeepsLeftParen(y, token) ==
    IF is_float(token)
    THEN [y EXCEPT !.output_queue = Append(@, token)]
    ELSE IF token \in operators
    THEN LET popped == PopOperators(y, token)
         IN  [popped EXCEPT !.operator_stack = Append(@, token)]
    ELSE IF token = << "(" >>
    THEN [y EXCEPT !.operator_stack = Append(@, token)]
    ELSE IF token = << ")" >>
    THEN PopToLeftParen(y)
    ELSE y

\* the body of the for loop (lines 122-144) for one token; y holds
\* operator_stack, output_queue and the exception raised, if any.  A token
\* that is no float, no operator and no parenthesis matches no branch.
ShuntingYardToken(y, token) ==
    IF is_float(token)
    THEN [y EXCEPT !.output_queue = Append(@, token)]
    ELSE IF token \in operators
    THEN LET popped == PopOperators(y, token)
         IN  [popped EXCEPT !.operator_stack = Append(@, token)]
    ELSE IF token = << "(" >>
    THEN [y EXCEPT !.operator_stack = Append(@, token)]
    ELSE IF token = << ")" >>
    THEN LET found == PopToLeftParen(y)
         IN  IF found.error # None THEN found
             ELSE [found EXCEPT !.operator_stack = Pop(@)]
    ELSE y

\* the for loop of lines 121-144 from token i on
RECURSIVE ShuntingYardLoop(_, _, _)
ShuntingYardLoop(tokens, i, y) ==
    IF i > Len(tokens) \/ y.error # None THEN y
    ELSE ShuntingYardLoop(tokens, i + 1, ShuntingYardToken(y, tokens[i]))

\* one iteration of the while loop of lines 146-148
FlushStep(y) ==
    IF Top(y.operator_stack) = << "(" >>
    THEN [y EXCEPT !.error = "MismatchedParenthesis"]
    ELSE [y EXCEPT !.output_queue = Append(@, Top(y.operator_stack)),
                   !.operator_stack = Pop(@)]

\* the while loop of lines 146-148; the assert of line 147 is
\* "Missing closing parenthesis"
RECURSIVE FlushOperators(_)
FlushOperators(y) ==
    IF y.operator_stack = << >> THEN y
    ELSE IF Top(y.operator_stack) = << "(" >>
    THEN [y EXCEPT !.error = "MismatchedParenthesis"]
    ELSE FlushOperators([y EXCEPT !.output_queue = Append(@, Top(y.operator_stack)),
                                  !.operator_stack = Pop(@)])

\* shunting_yard(tokens): its locals when it returns or raises; output_queue
\* is the value returned when error = None
shunting_yard(tokens) ==
    LET y == ShuntingYardLoop(tokens, 1,
                 [operator_stack |-> << >>, output_queue |-> << >>, error |-> None])
    IN  IF y.error # None THEN y ELSE FlushOperators(y)

\* ------------------------------------------------------------------------
\* evaluate_postfix (lines 153-183)
\* ------------------------------------------------------------------------
\* the match statement with the zero test of line 174 on the left operand
ApplyBinary_ChecksLeft(e, token, left, right) ==
    LET rest == Pop(Pop(e.stack))
    IN  CASE token = << "+" >> -> [e EXCEPT !.stack = Append(rest, Add(left, right))]
          [] token = << "-" >> -> [e EXCEPT !.stack = Append(rest, Sub(left, right))]
          [] token = << "*" >> -> [e EXCEPT !.stack = Append(rest, Mul(left, right))]
          [] token = << "/" >> ->
                IF IsZero(left)
                THEN [e EXCEPT !.stack = rest, !.error = "DivisionByZero"]
                ELSE [e EXCEPT !.stack = Append(rest, right)]
          [] token = << "^" >> ->
                IF IsZero(left) /\ right.k = "rat" /\ right.n < 0
                THEN [e EXCEPT !.stack = rest, !.error = "ZeroDivisionError"]
                ELSE [e EXCEPT !.stack = Append(rest, Pow(left, right))]
          [] OTHER -> [e EXCEPT !.stack = rest, !.error = "InvalidOperator"]

\* the match statement of lines 166-181
ApplyBinary(e, token, left, right) ==
    LET rest == Pop(Pop(e.stack))
    IN  CASE token = << "+" >> -> [e EXCEPT !.stack = Append(rest, Add(left, right))]
          [] token = << "-" >> -> [e EXCEPT !.stack = Append(rest, Sub(left, right))]
          [] token = << "*" >> -> [e EXCEPT !.stack = Append(rest, Mul(left, right))]
          [] token = << "/" >> ->
                IF IsZero(right)
                THEN [e EXCEPT !.stack = rest, !.error = "DivisionByZero"]
                ELSE [e EXCEPT !.stack = Append(rest, Div(left, right))]
          [] token = << "^" >> ->
                IF IsZero(left) /\ right.k = "rat" /\ right.n < 0
                THEN [e EXCEPT !.stack = rest, !.error = "ZeroDivisionError"]
                ELSE [e EXCEPT !.stack = Append(rest, Pow(left, right))]
          [] OTHER -> [e EXCEPT !.stack = rest, !.error = "InvalidOperator"]

\* the loop body with a unary negate that leaves an empty stack alone
EvaluateToken_SkipsEmptyNegate(e, token) ==
    IF is_float(token)
    THEN [e EXCEPT !.stack = Append(@, Float(token))]
    ELSE IF token = << "~" >>
    THEN IF e.stack = << >> THEN e
         ELSE [e EXCEPT !.stack = Append(Pop(@), Neg(Top(@)))]
    ELSE IF e.stack = << >> THEN [e EXCEPT !.error = "IndexError"]
    ELSE IF Len(e.stack) = 1 THEN [e EXCEPT !.stack = << >>, !.error = "IndexError"]
    ELSE ApplyBinary(e, token, Top(Pop(e.stack)), Top(e.stack))

\* the body of the for loop (lines 158-181) for one token; e holds the stack
\* and the exception raised, if any.  list.pop() of an empty list raises
\* IndexError.
EvaluateToken(e, token) ==
    IF is_float(token)
    THEN [e EXCEPT !.stack = Append(@, Float(token))]
    ELSE IF token = << "~" >>
    THEN IF e.stack = << >> THEN [e EXCEPT !.error = "IndexError"]
         ELSE [e EXCEPT !.stack = Append(Pop(@), Neg(Top(@)))]
    ELSE IF e.stack = << >> THEN [e EXCEPT !.error = "IndexError"]
    ELSE IF Len(e.stack) = 1 THEN [e EXCEPT !.stack = << >>, !.error = "IndexError"]
    ELSE ApplyBinary(e, token, Top(Pop(e.stack)), Top(e.stack))

RECURSIVE EvaluateLoop(_, _, _)
EvaluateLoop(postfix_expression, i, e) ==
    IF i > Len(postfix_expression) \/ e.error # None THEN e
    ELSE EvaluateLoop(postfix_expression, i + 1,
                      EvaluateToken(e, postfix_expression[i]))

\* evaluate_postfix(postfix_expression): stack is the value stack when the
\* for loop is left, result the value returned by stack.pop() at line 183
evaluate_postfix(postfix_expression) ==
    LET e == EvaluateLoop(postfix_expression, 1, [stack |-> << >>, error |-> None])
    IN  IF e.error # None
        THEN [stack |-> e.stack, result |-> NoValue, error |-> e.error]
        ELSE IF e.stack = << >>
        THEN [stack |-> e.stack, result |-> NoValue, error |-> "IndexError"]
        ELSE [stack |-> e.stack, result |-> Top(e.stack), error |-> None]

\* ------------------------------------------------------------------------
\* Inputs
\* ------------------------------------------------------------------------
Strings(A, n) == UNION {[1..k -> A] : k \in 0..n}

\* the characters typed at the prompt: a digit, the decimal point, operators,
\* parentheses, a space, a tab and a letter
Alphabet == {"1", ".", "+", "-", "*", "(", ")", " ", "\t", "a"}

ExitLines ==
    {<< "e", "x", "i", "t" >>, << "E", "x", "i", "t" >>, << "E", "X", "I", "T" >>}

\* lines that differ from "exit" by one character
NearExitLines ==
    {<< "e", "x", "i", "t", " " >>, << " ", "e", "x", "i", "t" >>,
     << "e", "x", "i" >>, << "E", "X", "I", "T", "1" >>}

\* the lines input() returns in Spec
Lines == Strings(Alphabet, MaxLen) \cup ExitLines \cup NearExitLines

\* the strings given to insert_assumed_multiplication in SpecCalls: every
\* string over the characters of Alphabet that validation allows
AllowedStrings == Strings(Alphabet \cap valid_chars, MaxLen)

\* the strings given to tokenize in SpecSteps, validated or not: a digit, the
\* minus sign, one more operator, the parentheses and a space
StepAlphabet == {"2", "-", "+", "(", ")", " "}
StepStrings == Strings(StepAlphabet, MaxStepLen)

\* the digits and operators of the well-formed expressions of SpecExpr
ExprDigits == {"0", "2"}
ExprOperators == {"+", "-", "*", "/", "^"}

\* the well-formed expressions of exactly n characters: a number, a negated
\* expression, a parenthesised expression, two expressions around an operator
RECURSIVE WellFormed(_)
WellFormed(n) ==
    IF n <= 0 THEN {}
    ELSE [1..n -> ExprDigits]
         \cup {<< "-" >> \o x : x \in WellFormed(n - 1)}
         \cup {<< "(" >> \o x \o << ")" >> : x \in WellFormed(n - 2)}
         \cup UNION {UNION {{x \o << o >> \o y : o \in ExprOperators} :
                            x \in WellFormed(i), y \in WellFormed(n - 1 - i)} :
                     i \in 1..(n - 2)}

WellFormedLines == UNION {WellFormed(n) : n \in 1..MaxExprLen}

\* the lines input() returns in SpecExpr
ExprLines == WellFormedLines \cup ExitLines

\* the tokens of the lists handed directly to shunting_yard and
\* evaluate_postfix in SpecCalls: numbers, a digit run that is no float,
\* operators, parentheses
CallTokens ==
    {<< "0" >>, << "1" >>, << "1", ".", "." >>, << "~" >>, << "+" >>, << "-" >>,
     << "*" >>, << "/" >>, << "^" >>, << "(" >>, << ")" >>}

TokenLists == Strings(CallTokens, MaxTokens)

\* str.lower() on the characters of the model
LowerChar(c) ==
    CASE c = "E" -> "e" [] c = "X" -> "x" [] c = "I" -> "i" [] c = "T" -> "t"
      [] OTHER -> c

lower(str) == [i \in 1..Len(str) |-> LowerChar(str[i])]

\* ------------------------------------------------------------------------
\* State
\* ------------------------------------------------------------------------
VARIABLES
    pc,              \* the statement of app_main (or the call) to run next
    line,            \* the line input() returned, as typed
    expression,      \* app_main's local of that name
    tokens,          \* app_main's tokens / the argument of shunting_yard
    postfix,         \* app_main's postfix / the argument of evaluate_postfix
    operator_stack,  \* shunting_yard's local when it returned or raised
    stack,           \* evaluate_postfix's local when it left its for loop
    result,          \* the value evaluate_postfix returned
    error,           \* the exception caught at line 210, or raised by a call
    cursor,          \* tokenize's local of that name
    is_infix,        \* tokenize's local of that name
    index            \* how many items the running for loop has taken

\* the locals of a function that is run statement by statement
locals == << cursor, is_infix, index >>

vars == << pc, line, expression, tokens, postfix, operator_stack, stack,
           result, error, cursor, is_infix, index >>

\* the locals of one iteration, not yet assigned
Fresh ==
    /\ line = << >>
    /\ expression = << >>
    /\ tokens = << >>
    /\ postfix = << >>
    /\ operator_stack = << >>
    /\ stack = << >>
    /\ result = NoValue
    /\ error = None
    /\ cursor = 0
    /\ is_infix = FALSE
    /\ index = 0

Init == pc = "input" /\ Fresh

\* ------------------------------------------------------------------------
\* app_main (lines 186-211)
\* ------------------------------------------------------------------------
\* lines 190-193: read a line; "exit" in any case ends the loop
InputFrom(S) ==
    /\ pc = "input"
    /\ \E s \in S :
        /\ line' = s
        /\ expression' = s
        /\ pc' = IF lower(s) = << "e", "x", "i", "t" >> THEN "exited" ELSE "validate"
    /\ UNCHANGED << tokens, postfix, operator_stack, stack, result, error >>
    /\ UNCHANGED locals

Input == InputFrom(Lines)
InputExpr == InputFrom(ExprLines)

\* line 195 with the exception swallowed: the next statement runs in any case
Validate_Continues ==
    /\ pc = "validate"
    /\ error' = validate_expression(expression)
    /\ pc' = "normalize"
    /\ UNCHANGED << line, expression, tokens, postfix, operator_stack, stack, result >>
    /\ UNCHANGED locals

\* line 195
Validate ==
    /\ pc = "validate"
    /\ LET raised == validate_expression(expression)
       IN  /\ error' = raised
           /\ pc' = IF raised # None THEN "except" ELSE "normalize"
    /\ UNCHANGED << line, expression, tokens, postfix, operator_stack, stack, result >>
    /\ UNCHANGED locals

\* lines 197-198
Normalize ==
    /\ pc = "normalize"
    /\ expression' = insert_assumed_multiplication(expression)
    /\ pc' = "tokenize"
    /\ UNCHANGED << line, tokens, postfix, operator_stack, stack, result, error >>
    /\ UNCHANGED locals

\* lines 200-201
Tokenize ==
    /\ pc = "tokenize"
    /\ tokens' = tokenize(expression)
    /\ pc' = "convert"
    /\ UNCHANGED << line, expression, postfix, operator_stack, stack, result, error >>
    /\ UNCHANGED locals

\* lines 203-204
Convert ==
    /\ pc = "convert"
    /\ LET y == shunting_yard(tokens)
       IN  /\ operator_stack' = y.operator_stack
           /\ error' = y.error
           /\ postfix' = IF y.error = None THEN y.output_queue ELSE postfix
           /\ pc' = IF y.error = None THEN "evaluate" ELSE "except"
    /\ UNCHANGED << line, expression, tokens, stack, result >>
    /\ UNCHANGED locals

\* line 206
Evaluate ==
    /\ pc = "evaluate"
    /\ LET e == evaluate_postfix(postfix)
       IN  /\ stack' = e.stack
           /\ error' = e.error
           /\ result' = e.result
           /\ pc' = IF e.error = None THEN "report" ELSE "except"
    /\ UNCHANGED << line, expression, tokens, postfix, operator_stack >>
    /\ UNCHANGED locals

\* the locals are dead when the loop returns to line 190: each is assigned
\* before it is read again
BackToPrompt ==
    /\ pc' = "input"
    /\ line' = << >>
    /\ expression' = << >>
    /\ tokens' = << >>
    /\ postfix' = << >>
    /\ operator_stack' = << >>
    /\ stack' = << >>
    /\ result' = NoValue
    /\ error' = None
    /\ UNCHANGED locals

BackToIdle ==
    /\ pc' = "idle"
    /\ line' = << >>
    /\ expression' = << >>
    /\ tokens' = << >>
    /\ postfix' = << >>
    /\ operator_stack' = << >>
    /\ stack' = << >>
    /\ result' = NoValue
    /\ error' = None
    /\ UNCHANGED locals

\* line 207: the result is printed
Report == pc = "report" /\ BackToPrompt

\* the except clause re-raising: the exception leaves the while loop
Except_EndsLoop ==
    /\ pc = "except"
    /\ pc' = "exited"
    /\ UNCHANGED << line, expression, tokens, postfix, operator_stack, stack,
                    result, error >>
    /\ UNCHANGED locals

\* lines 210-211: the exception is caught and its traceback printed
Except == pc = "except" /\ BackToPrompt

Next == Input \/ Validate \/ Normalize \/ Tokenize \/ Convert \/ Evaluate
            \/ Report \/ Except

Spec == Init /\ [][Next]_vars

NextExpr == InputExpr \/ Validate \/ Normalize \/ Tokenize \/ Convert \/ Evaluate
                \/ Report \/ Except

SpecExpr == Init /\ [][NextExpr]_vars

\* ------------------------------------------------------------------------
\* shunting_yard and evaluate_postfix called directly with any token list
\* ------------------------------------------------------------------------
InitCalls == pc = "idle" /\ Fresh

CallShuntingYard ==
    /\ pc = "idle"
    /\ \E ts \in TokenLists :
        LET y == shunting_yard(ts)
        IN  /\ tokens' = ts
            /\ operator_stack' = y.operator_stack
            /\ error' = y.error
            /\ postfix' = IF y.error = None THEN y.output_queue ELSE << >>
    /\ pc' = "shunting_yard"
    /\ stack' = << >>
    /\ result' = NoValue
    /\ UNCHANGED << line, expression >>
    /\ UNCHANGED locals

CallEvaluatePostfix ==
    /\ pc = "idle"
    /\ \E ps \in TokenLists :
        LET e == evaluate_postfix(ps)
        IN  /\ postfix' = ps
            /\ stack' = e.stack
            /\ error' = e.error
            /\ result' = e.result
    /\ pc' = "evaluate_postfix"
    /\ tokens' = << >>
    /\ operator_stack' = << >>
    /\ UNCHANGED << line, expression >>
    /\ UNCHANGED locals

CallInsertAssumedMultiplication ==
    /\ pc = "idle"
    /\ \E s \in AllowedStrings :
        /\ line' = s
        /\ expression' = insert_assumed_multiplication(s)
    /\ pc' = "insert_assumed_multiplication"
    /\ UNCHANGED << tokens, postfix, operator_stack, stack, result, error >>
    /\ UNCHANGED locals

\* the caller is done with what the call gave
Return ==
    /\ pc \in {"shunting_yard", "evaluate_postfix",
               "insert_assumed_multiplication"}
    /\ BackToIdle

NextCalls ==
    \/ CallShuntingYard
    \/ CallEvaluatePostfix
    \/ CallInsertAssumedMultiplication
    \/ Return

SpecCalls == InitCalls /\ [][NextCalls]_vars

\* ------------------------------------------------------------------------
\* tokenize, shunting_yard and evaluate_postfix run one loop iteration at a
\* time, each on what the one before has given (lines 200, 203 and 206)
\* ------------------------------------------------------------------------
InitSteps == pc = "idle" /\ Fresh

\* lines 61-62
CallTokenize ==
    /\ pc = "idle"
    /\ \E s \in StepStrings : expression' = s
    /\ cursor' = 0
    /\ is_infix' = FALSE
    /\ tokens' = << >>
    /\ pc' = "tokenize_while"
    /\ UNCHANGED << line, postfix, operator_stack, stack, result, error, index >>

\* lines 64-92, one iteration
TokenizeIteration ==
    /\ pc = "tokenize_while"
    /\ cursor < Len(expression)
    /\ LET t == TokenizeStep(expression,
                    [cursor |-> cursor, is_infix |-> is_infix, yielded |-> tokens])
       IN  /\ cursor' = t.cursor
           /\ is_infix' = t.is_infix
           /\ tokens' = t.yielded
    /\ UNCHANGED << pc, line, expression, postfix, operator_stack, stack, result,
                    error, index >>

\* line 64 false: the generator is exhausted, and shunting_yard is called
\* with the list (lines 118-119)
TokenizeExhausted ==
    /\ pc = "tokenize_while"
    /\ ~(cursor < Len(expression))
    /\ operator_stack' = << >>
    /\ postfix' = << >>
    /\ index' = 0
    /\ pc' = "shunting_yard_for"
    /\ UNCHANGED << line, expression, tokens, stack, result, error, cursor, is_infix >>

\* lines 121-144, one iteration
ShuntingYardIteration ==
    /\ pc = "shunting_yard_for"
    /\ index < Len(tokens)
    /\ LET y == ShuntingYardToken([operator_stack |-> operator_stack,
                                   output_queue |-> postfix,
                                   error |-> None], tokens[index + 1])
       IN  /\ operator_stack' = y.operator_stack
           /\ postfix' = y.output_queue
           /\ error' = y.error
           /\ pc' = IF y.error # None THEN "raised" ELSE pc
    /\ index' = index + 1
    /\ UNCHANGED << line, expression, tokens, stack, result, cursor, is_infix >>

\* the for loop of line 121 has taken every token
ShuntingYardExhausted ==
    /\ pc = "shunting_yard_for"
    /\ ~(index < Len(tokens))
    /\ pc' = "shunting_yard_while"
    /\ UNCHANGED << line, expression, tokens, postfix, operator_stack, stack,
                    result, error, cursor, is_infix, index >>

\* lines 146-148, one iteration
ShuntingYardFlush ==
    /\ pc = "shunting_yard_while"
    /\ operator_stack # << >>
    /\ LET y == FlushStep([operator_stack |-> operator_stack,
                           output_queue |-> postfix,
                           error |-> None])
       IN  /\ operator_stack' = y.operator_stack
           /\ postfix' = y.output_queue
           /\ error' = y.error
           /\ pc' = IF y.error # None THEN "raised" ELSE pc
    /\ UNCHANGED << line, expression, tokens, stack, result, cursor, is_infix, index >>

\* line 150, and evaluate_postfix is called with what is returned (line 156)
ShuntingYardReturn ==
    /\ pc = "shunting_yard_while"
    /\ operator_stack = << >>
    /\ stack' = << >>
    /\ index' = 0
    /\ pc' = "evaluate_for"
    /\ UNCHANGED << line, expression, tokens, postfix, operator_stack, result,
                    error, cursor, is_infix >>

\* lines 158-181, one iteration
EvaluateIteration ==
    /\ pc = "evaluate_for"
    /\ index < Len(postfix)
    /\ LET e == EvaluateToken([stack |-> stack, error |-> None], postfix[index + 1])
       IN  /\ stack' = e.stack
           /\ error' = e.error
           /\ pc' = IF e.error # None THEN "raised" ELSE pc
    /\ index' = index + 1
    /\ UNCHANGED << line, expression, tokens, postfix, operator_stack, result,
                    cursor, is_infix >>

\* line 183
EvaluateReturn ==
    /\ pc = "evaluate_for"
    /\ ~(index < Len(postfix))
    /\ IF stack = << >>
       THEN /\ error' = "IndexError"
            /\ result' = NoValue
            /\ pc' = "raised"
       ELSE /\ error' = None
            /\ result' = Top(stack)
            /\ pc' = "returned"
    /\ UNCHANGED << line, expression, tokens, postfix, operator_stack, stack,
                    cursor, is_infix, index >>

\* the caller has the result, or the exception
StepsDone ==
    /\ pc \in {"returned", "raised"}
    /\ pc' = "idle"
    /\ line' = << >>
    /\ expression' = << >>
    /\ tokens' = << >>
    /\ postfix' = << >>
    /\ operator_stack' = << >>
    /\ stack' = << >>
    /\ result' = NoValue
    /\ error' = None
    /\ cursor' = 0
    /\ is_infix' = FALSE
    /\ index' = 0

\* the statements of the three functions
StepsRun ==
    \/ TokenizeIteration
    \/ TokenizeExhausted
    \/ ShuntingYardIteration
    \/ ShuntingYardExhausted
    \/ ShuntingYardFlush
    \/ ShuntingYardReturn
    \/ EvaluateIteration
    \/ EvaluateReturn

NextSteps == CallTokenize \/ StepsRun \/ StepsDone

SpecSteps == InitSteps /\ [][NextSteps]_vars

\* a function that has been called goes on to its next statement: nothing
\* in the program suspends it
SpecStepsFair == SpecSteps /\ WF_vars(StepsRun)

\* ------------------------------------------------------------------------
\* Reference evaluator: reduces a well-formed expression directly, by
\* recursive descent over its characters
\*   expr    ::= term   { ("+" | "-") term }       grouping left to right
\*   term    ::= factor { ("*" | "/") factor }     grouping left to right
\*   factor  ::= "-" factor | primary [ "^" factor ]   grouping right to left
\*   primary ::= number | "(" expr ")"
\* Each operator gives [v, i, error]: the value, the position after the part
\* read, and the arithmetic failure met first (operands left to right).
\* ------------------------------------------------------------------------
RefOk(v, i) == [v |-> v, i |-> i, error |-> None]
RefFail(i, e) == [v |-> NoValue, i |-> i, error |-> e]

RECURSIVE RefNumberEnd(_, _)
RefNumberEnd(s, i) ==
    IF i <= Len(s) /\ s[i] \in ReDigit THEN RefNumberEnd(s, i + 1) ELSE i

RECURSIVE RefExpr(_, _)
RECURSIVE RefExprRest(_, _, _)
RECURSIVE RefTerm(_, _)
RECURSIVE RefTermRest(_, _, _)
RECURSIVE RefFactor(_, _)
RECURSIVE RefPrimary(_, _)

RefPrimary(s, i) ==
    IF s[i] = "("
    THEN LET r == RefExpr(s, i + 1) IN [r EXCEPT !.i = @ + 1]
    ELSE LET j == RefNumberEnd(s, i) IN RefOk(Float(SubSeq(s, i, j - 1)), j)

RefFactor(s, i) ==
    IF s[i] = "-"
    THEN LET r == RefFactor(s, i + 1)
         IN  IF r.error # None THEN r ELSE RefOk(Neg(r.v), r.i)
    ELSE LET p == RefPrimary(s, i)
         IN  IF p.error # None \/ p.i > Len(s) THEN p
             ELSE IF s[p.i] # "^" THEN p
             ELSE LET x == RefFactor(s, p.i + 1)
                  IN  IF x.error # None THEN x
                      ELSE IF IsZero(p.v) /\ x.v.k = "rat" /\ x.v.n < 0
                      THEN RefFail(x.i, "ZeroDivisionError")
                      ELSE RefOk(Pow(p.v, x.v), x.i)

RefTermRest(s, i, acc) ==
    IF i > Len(s) THEN RefOk(acc, i)
    ELSE IF s[i] \notin {"*", "/"} THEN RefOk(acc, i)
    ELSE LET f == RefFactor(s, i + 1)
         IN  IF f.error # None THEN f
             ELSE IF s[i] = "*" THEN RefTermRest(s, f.i, Mul(acc, f.v))
             ELSE IF IsZero(f.v) THEN RefFail(f.i, "DivisionByZero")
             ELSE RefTermRest(s, f.i, Div(acc, f.v))

RefTerm(s, i) ==
    LET f == RefFactor(s, i)
    IN  IF f.error # None THEN f ELSE RefTermRest(s, f.i, f.v)

RefExprRest(s, i, acc) ==
    IF i > Len(s) THEN RefOk(acc, i)
    ELSE IF s[i] \notin {"+", "-"} THEN RefOk(acc, i)
    ELSE LET t == RefTerm(s, i + 1)
         IN  IF t.error # None THEN t
             ELSE IF s[i] = "+" THEN RefExprRest(s, t.i, Add(acc, t.v))
             ELSE RefExprRest(s, t.i, Sub(acc, t.v))

RefExpr(s, i) ==
    LET t == RefTerm(s, i)
    IN  IF t.error # None THEN t ELSE RefExprRest(s, t.i, t.v)

\* ------------------------------------------------------------------------
\* Claims
\* ------------------------------------------------------------------------

\* C1: for a well-formed expression over numbers, + - * / ^, unary minus and
\* parentheses, the pipeline ends with the value the reference evaluator
\* gives; where the reduction meets a division by zero (or 0 to a negative
\* power) both end with that failure, and no other stage fails.
C1_PipelineEqualsReference ==
    (pc \in {"report", "except"} /\ line \in WellFormedLines) =>
        LET ref == RefExpr(line, 1)
        IN  IF ref.error = None
            THEN pc = "report" /\ result = ref.v /\ ref.i = Len(line) + 1
            ELSE pc = "except" /\ error = ref.error

\* (-2)^2 has been evaluated to 4: the parentheses override the grouping
\* -(2^2) of unary minus and ^
C1_Witness ==
    /\ pc = "report"
    /\ line = << "(", "-", "2", ")", "^", "2" >>
    /\ postfix = << << "2" >>, << "~" >>, << "2" >>, << "^" >> >>
    /\ result = Rat(4, 1)

\* C2: evaluate_postfix returns a result only when exactly one value is left
\* on the value stack at the end of the postfix sequence.
C2_ResultOnlyFromSingleValue ==
    (pc = "evaluate_postfix" /\ result # NoValue) => Len(stack) = 1

\* a token the tokenizer emits as a number: a run of DIGITS characters
IsNumberToken(token) == token # << >> /\ token[1] \in DIGITS

\* C3: for an accepted input, the tokens of the normalised expression never
\* hold a number directly before "(", a ")" directly before a number, or a
\* ")" directly before "(".
C3_NoImpliedMultiplicationLeft ==
    pc = "convert" =>
        \A i \in 1..(Len(tokens) - 1) :
            /\ ~(is_float(tokens[i]) /\ tokens[i + 1] = << "(" >>)
            /\ ~(tokens[i] = << ")" >> /\ is_float(tokens[i + 1]))
            /\ ~(tokens[i] = << ")" >> /\ tokens[i + 1] = << "(" >>)

\* a number token whose text does not parse as a float
IsMalformedNumber(token) == IsNumberToken(token) /\ ~is_float(token)

\* C4: a malformed number token is passed into the postfix sequence, and no
\* run whose tokens hold one ends with a numeric result.
C4_MalformedNumberRejected ==
    /\ pc = "evaluate" =>
          \A i \in 1..Len(tokens) :
              IsMalformedNumber(tokens[i]) =>
                  \E j \in 1..Len(postfix) : postfix[j] = tokens[i]
    /\ pc = "report" =>
          \A i \in 1..Len(tokens) : ~IsMalformedNumber(tokens[i])

\* validate_expression has run on the line
Validated == pc \in {"normalize", "tokenize", "convert", "evaluate", "report", "except"}

\* the failures validate_expression raises
ValidationErrors ==
    {"EmptyInput", "IllegalCharacter", "AdjacentNumbers", "UnbalancedParentheses"}

\* C5: a line that is empty or holds only whitespace characters fails
\* validation with EmptyInput.
C5_WhitespaceOnlyIsEmptyInput ==
    (Validated /\ \A i \in 1..Len(line) : line[i] \in ReSpace) =>
        (pc = "except" /\ error = "EmptyInput")

\* C6: for an accepted input every number token is a run of the line as
\* typed: stripping the whitespace joins no two numeric runs into one token.
C6_NoJoinedNumbers ==
    pc = "convert" =>
        \A i \in 1..Len(tokens) :
            IsNumberToken(tokens[i]) =>
                \E a \in 1..Len(line) :
                    /\ a + Len(tokens[i]) - 1 <= Len(line)
                    /\ SubSeq(line, a, a + Len(tokens[i]) - 1) = tokens[i]

\* "(" minus ")" among the first k characters of s
ParenDepth(s, k) ==
    Cardinality({i \in 1..k : s[i] = "("}) - Cardinality({i \in 1..k : s[i] = ")"})

Unbalanced(s) ==
    \/ \E k \in 1..Len(s) : ParenDepth(s, k) < 0
    \/ ParenDepth(s, Len(s)) # 0

\* C7: a non-empty line over the valid characters with no adjacent-number
\* pattern fails validation with UnbalancedParentheses exactly when the
\* running count of "(" minus ")" is negative after some prefix or nonzero
\* at the end; otherwise validation accepts it.
C7_UnbalancedIff ==
    (/\ Validated
     /\ line # << >>
     /\ \A i \in 1..Len(line) : line[i] \in valid_chars
     /\ ~AdjacentNumbersSearch(line)) =>
        IF Unbalanced(line)
        THEN pc = "except" /\ error = "UnbalancedParentheses"
        ELSE error \notin ValidationErrors

\* ")(" is rejected: the count is negative after the first character though
\* it is zero at the end
C7_Witness ==
    /\ pc = "except"
    /\ line = << ")", "(" >>
    /\ error = "UnbalancedParentheses"

\* the allowed set as the specification words it: any whitespace
AllowedWithWhitespace ==
    ReDigit \cup {".", "+", "-", "*", "/", "^", "(", ")"} \cup ReSpace

\* the allowed set with the space as its only whitespace character
AllowedWithSpace ==
    ReDigit \cup {".", "+", "-", "*", "/", "^", "(", ")", " "}

TokenDepth(ts, k) ==
    Cardinality({i \in 1..k : ts[i] = << "(" >>})
        - Cardinality({i \in 1..k : ts[i] = << ")" >>})

\* C9: for any token list, shunting_yard fails with MismatchedParenthesis
\* and returns no postfix sequence when a ")" finds no "(" on the operator
\* stack and when a "(" is left on it at the end.
C9_MismatchedParenthesis ==
    (/\ pc = "shunting_yard"
     /\ \/ \E k \in 1..Len(tokens) : TokenDepth(tokens, k) < 0
        \/ TokenDepth(tokens, Len(tokens)) # 0) =>
        (error = "MismatchedParenthesis" /\ postfix = << >>)

\* C10: for an accepted input shunting_yard completes without a failure,
\* and its operator stack is empty when it returns.
C10_ConvertCompletes ==
    [][pc = "convert" =>
          (pc' = "evaluate" /\ error' = None /\ operator_stack' = << >>)]_vars

\* "(-1)" has been converted: the ")" found its "(", the "~" was popped to
\* the output and the stack is empty
C10_Witness ==
    /\ pc = "evaluate"
    /\ line = << "(", "-", "1", ")" >>
    /\ tokens = << << "(" >>, << "~" >>, << "1" >>, << ")" >> >>
    /\ postfix = << << "1" >>, << "~" >> >>
    /\ operator_stack = << >>


\* the evaluator's stack and exception when it comes to token i of ps
EvaluatorBefore(ps, i) ==
    EvaluateLoop(SubSeq(ps, 1, i - 1), 1, [stack |-> << >>, error |-> None])

\* C11: whenever evaluate_postfix comes to a "/" with two values on the
\* stack of which the top one, the right operand, is zero, the call fails
\* with DivisionByZero and returns no result.
C11_DivisionByZero ==
    pc = "evaluate_postfix" =>
        \A i \in 1..Len(postfix) :
            LET e == EvaluatorBefore(postfix, i)
            IN  (/\ e.error = None
                 /\ postfix[i] = << "/" >>
                 /\ Len(e.stack) >= 2
                 /\ IsZero(Top(e.stack))) =>
                    (error = "DivisionByZero" /\ result = NoValue)

\* 0 0 ~ /: the right operand is a zero computed by a negation, the left
\* operand is zero as well
C11_Witness ==
    /\ pc = "evaluate_postfix"
    /\ postfix = << << "0" >>, << "0" >>, << "~" >>, << "/" >> >>
    /\ IsZero(Top(EvaluatorBefore(postfix, 4).stack))
    /\ error = "DivisionByZero"
    /\ result = NoValue

\* C12: whenever evaluate_postfix comes to a unary negate with an empty
\* stack, or to a binary operator with fewer than two values on the stack,
\* the call fails with the IndexError of list.pop() (the stack underflow)
\* and returns no result.
C12_StackUnderflow ==
    pc = "evaluate_postfix" =>
        \A i \in 1..Len(postfix) :
            LET e == EvaluatorBefore(postfix, i)
            IN  (/\ e.error = None
                 /\ \/ postfix[i] = << "~" >> /\ e.stack = << >>
                    \/ /\ postfix[i] \in operators \ {<< "~" >>}
                       /\ Len(e.stack) < 2) =>
                    (error = "IndexError" /\ result = NoValue)

\* 1 ~ ~ + : the "+" finds one value only
C12_Witness ==
    /\ pc = "evaluate_postfix"
    /\ postfix = << << "1" >>, << "~" >>, << "~" >>, << "+" >> >>
    /\ Len(EvaluatorBefore(postfix, 4).stack) = 1
    /\ error = "IndexError"
    /\ result = NoValue


\* C13: for every string over the allowed characters, normalizing the
\* normalized string again changes nothing.
C13_NormalizeIdempotent ==
    pc = "insert_assumed_multiplication" =>
        insert_assumed_multiplication(expression) = expression

\* "1()1" becomes "1*()*1", which a second normalization leaves alone
C13_Witness ==
    /\ pc = "insert_assumed_multiplication"
    /\ line = << "1", "(", ")", "1" >>
    /\ expression = << "1", "*", "(", ")", "*", "1" >>
    /\ insert_assumed_multiplication(expression) = expression

\* a is a digit and b is "(", or a is ")" and b is a digit or "("
IsImpliedPair(a, b) ==
    \/ a \in ReDigit /\ b = "("
    \/ a = ")" /\ b \in ReDigit
    \/ a = ")" /\ b = "("

\* one pass over s from position i, left to right, every pair of neighbours
\* looked at in s itself: "*" is put between the two characters of each
\* implied pair
RECURSIVE SimultaneousPass(_, _)
SimultaneousPass(s, i) ==
    IF i > Len(s) THEN << >>
    ELSE IF i < Len(s) /\ IsImpliedPair(s[i], s[i + 1])
    THEN << s[i], "*" >> \o SimultaneousPass(s, i + 1)
    ELSE << s[i] >> \o SimultaneousPass(s, i + 1)

\* C18: the three substitutions made one after the other give what one
\* simultaneous left-to-right pass over the whitespace-stripped string gives.
C18_SequentialEqualsSimultaneous ==
    pc = "insert_assumed_multiplication" =>
        expression = SimultaneousPass(StripWhitespace(line), 1)

\* ")(1(" has a ")(" pair next to a digit-"(" pair, and a second "("
C18_Witness ==
    /\ pc = "insert_assumed_multiplication"
    /\ line = << ")", "(", "1", "(" >>
    /\ expression = << ")", "*", "(", "1", "*", "(" >>
    /\ expression = SimultaneousPass(line, 1)


\* the statement of the try block that follows the one at p
NextStage(p) ==
    CASE p = "validate" -> "normalize"
      [] p = "normalize" -> "tokenize"
      [] p = "tokenize" -> "convert"
      [] p = "convert" -> "evaluate"
      [] p = "evaluate" -> "report"

Stages == {"validate", "normalize", "tokenize", "convert", "evaluate"}

\* C14: a line that is not "exit" goes through validate, normalize,
\* tokenize, convert and evaluate in this order; a stage that raises ends
\* the line: control goes to the except clause and from there to the prompt,
\* no later stage runs and no result is reported; a stage runs, and the
\* result is reported, only when no stage before has raised; when validation
\* raises, nothing has been tokenized.
C14_StagesInOrder ==
    [][ /\ pc = "input" => pc' \in {"validate", "exited"}
        /\ pc \in Stages =>
              /\ pc' = (IF error' # None THEN "except" ELSE NextStage(pc))
              /\ error = None
        /\ pc' = "report" => (pc = "evaluate" /\ result' # NoValue)
        /\ pc' = "except" => result' = NoValue
        /\ (pc = "validate" /\ error' # None) => tokens' = << >>
        /\ pc \in {"except", "report"} => pc' = "input"
      ]_vars

\* "1+" passes validation, is tokenized and converted, and fails in
\* evaluate_postfix: nothing is reported
C14_Witness ==
    /\ pc = "except"
    /\ line = << "1", "+" >>
    /\ tokens = << << "1" >>, << "+" >> >>
    /\ postfix = << << "1" >>, << "+" >> >>
    /\ error = "IndexError"
    /\ result = NoValue


\* the four letters e, x, i, t, each in either case
IsExitWord(s) ==
    /\ Len(s) = 4
    /\ s[1] \in {"e", "E"}
    /\ s[2] \in {"x", "X"}
    /\ s[3] \in {"i", "I"}
    /\ s[4] \in {"t", "T"}

\* C15: the loop ends only at the prompt and only on a line that is "exit"
\* in some mix of cases, and it ends on every such line; an exception raised
\* by a stage is caught and the loop goes back to the prompt.
C15_LoopEndsOnlyOnExit ==
    [][ /\ pc' = "exited" => (pc = "input" /\ IsExitWord(line'))
        /\ (pc = "input" /\ IsExitWord(line')) => pc' = "exited"
        /\ pc = "except" => (pc' = "input" /\ error # None)
      ]_vars

\* "exit " is not the exit word: it fails validation and the exception is
\* caught
C15_Witness ==
    /\ pc = "except"
    /\ line = << "e", "x", "i", "t", " " >>
    /\ error = "IllegalCharacter"


\* shunting_yard's locals when it comes to token i of ts
ConverterBefore(ts, i) ==
    ShuntingYardLoop(SubSeq(ts, 1, i - 1), 1,
        [operator_stack |-> << >>, output_queue |-> << >>, error |-> None])

RightAssociative == {<< "^" >>, << "~" >>}

\* line is k minus signs, k >= 1, and one digit
IsStackedNegation(s) ==
    /\ Len(s) >= 2
    /\ \A j \in 1..(Len(s) - 1) : s[j] = "-"
    /\ s[Len(s)] \in ReDigit

\* line is a^b^c for digits a, b, c
IsPowerChain(s) ==
    /\ Len(s) = 5
    /\ s[2] = "^" /\ s[4] = "^"
    /\ s[1] \in ReDigit /\ s[3] \in ReDigit /\ s[5] \in ReDigit

\* C17: when "^" or "~" comes in and the top of the operator stack is "^"
\* or "~", the token is pushed on the stack as it is, nothing popped and
\* nothing put out; a^b^c is put out as a b c ^ ^; k minus signs before a
\* number are put out as the number and k negations, the one nearest to the
\* number first.
C17_RightAssociativeNotPopped ==
    pc = "evaluate" =>
        /\ \A i \in 1..Len(tokens) :
              LET y == ConverterBefore(tokens, i)
              IN  (/\ tokens[i] \in RightAssociative
                   /\ y.operator_stack # << >>
                   /\ Top(y.operator_stack) \in RightAssociative) =>
                      ShuntingYardToken(y, tokens[i]) =
                          [y EXCEPT !.operator_stack = Append(@, tokens[i])]
        /\ IsPowerChain(line) =>
              postfix = << << line[1] >>, << line[3] >>, << line[5] >>,
                           << "^" >>, << "^" >> >>
        /\ IsStackedNegation(line) =>
              postfix = << << line[Len(line)] >> >>
                            \o [j \in 1..(Len(line) - 1) |-> << "~" >>]

\* 2^0^2 is put out as 2 0 2 ^ ^
C17_Witness ==
    /\ pc = "evaluate"
    /\ line = << "2", "^", "0", "^", "2" >>
    /\ Top(ConverterBefore(tokens, 4).operator_stack) = << "^" >>
    /\ postfix = << << "2" >>, << "0" >>, << "2" >>, << "^" >>, << "^" >> >>


\* how many times x is in seq
Occurrences(seq, x) == Cardinality({j \in DOMAIN seq : seq[j] = x})

IsParenthesis(token) == token \in {<< "(" >>, << ")" >>}

\* every ")" of ts closes a "(" before it
ProperlyNested(ts) == \A k \in 1..Len(ts) : TokenDepth(ts, k) >= 0

\* C19: for a token list with as many "(" as ")" whose number tokens are
\* all floats: when each ")" closes an earlier "(", shunting_yard returns a
\* postfix sequence; and the sequence it returns has no parenthesis, has
\* every other token as many times as the input has it, and has the numbers
\* in the order of the input.
C19_PostfixIsPermutation ==
    (/\ pc = "shunting_yard"
     /\ TokenDepth(tokens, Len(tokens)) = 0
     /\ \A i \in 1..Len(tokens) : ~IsMalformedNumber(tokens[i])) =>
        /\ ProperlyNested(tokens) => error = None
        /\ error = None =>
              /\ \A j \in 1..Len(postfix) : ~IsParenthesis(postfix[j])
              /\ \A t \in CallTokens :
                    ~IsParenthesis(t) =>
                        Occurrences(postfix, t) = Occurrences(tokens, t)
              /\ SelectSeq(postfix, is_float) = SelectSeq(tokens, is_float)

\* ~ ( 1 ) is put out as 1 ~
C19_Witness ==
    /\ pc = "shunting_yard"
    /\ tokens = << << "~" >>, << "(" >>, << "1" >>, << ")" >> >>
    /\ postfix = << << "1" >>, << "~" >> >>
    /\ error = None


\* is_infix is true exactly when the token yielded last is a number or ")"
FlagAgreesWithLastToken ==
    is_infix <=> (/\ tokens # << >>
                  /\ \/ IsNumberToken(Top(tokens))
                     \/ Top(tokens) = << ")" >>)

\* the iteration that reads a "-" yields "~" exactly when the "-" is the
\* first character or comes directly after an operator character (a "-"
\* yielded as "~" among them) or "(", and yields "-" exactly when it comes
\* directly after a character of a number or ")"
MinusRule ==
    (/\ pc = "tokenize_while"
     /\ cursor < Len(expression)
     /\ expression[cursor + 1] = "-") =>
        /\ Len(tokens') = Len(tokens) + 1
        /\ Top(tokens') = << "~" >> <=>
              (cursor = 0 \/ expression[cursor] \in BASE_OPERATORS \cup {"("})
        /\ Top(tokens') = << "-" >> <=>
              (cursor > 0 /\ expression[cursor] \in DIGITS \cup {")"})

\* every character of s is taken by one of the first three branches of the
\* while loop
Recognized(s) ==
    \A j \in 1..Len(s) : s[j] \in BASE_OPERATORS \cup PARENTHESIS \cup DIGITS

\* C16 as stated: for any string, at every cursor position is_infix is true
\* exactly when the last token is a number or ")", and a "-" is yielded as
\* "~" or as "-" by what it directly follows.
C16_InfixFlag ==
    [][ /\ pc = "tokenize_while" => FlagAgreesWithLastToken
        /\ pc' = "tokenize_while" => FlagAgreesWithLastToken'
        /\ MinusRule
      ]_vars

\* C16 amended: the same for the strings that have recognized characters only,
\* as every string that has passed validation and normalization has.
C16_InfixFlagRecognized ==
    [][ Recognized(expression) =>
          /\ pc = "tokenize_while" => FlagAgreesWithLastToken
          /\ pc' = "tokenize_while" => FlagAgreesWithLastToken'
          /\ MinusRule
      ]_vars

\* in "2--2" the first "-" has been yielded as "-" and the second as "~"
C16_Witness ==
    /\ pc = "tokenize_while"
    /\ expression = << "2", "-", "-", "2" >>
    /\ cursor = 3
    /\ tokens = << << "2" >>, << "-" >>, << "~" >> >>
    /\ ~is_infix


\* an iteration of tokenize's while loop moves the cursor forward, and not
\* past the end of the string
CursorAdvances ==
    (pc = "tokenize_while" /\ pc' = "tokenize_while") =>
        (cursor < cursor' /\ cursor' <= Len(expression))

\* an iteration of shunting_yard's for loop pops no more operators than the
\* stack holds, and the stack holds no more than the tokens taken so far; an
\* iteration of its while loop pops one operator at most
ConverterPopsBounded ==
    /\ (pc = "shunting_yard_for" /\ index' = index + 1) =>
          LET pushed == IF tokens[index + 1] \in operators \cup {<< "(" >>}
                        THEN 1 ELSE 0
              pops == Len(operator_stack) + pushed - Len(operator_stack')
          IN  /\ pops \in 0..Len(operator_stack)
              /\ Len(operator_stack) <= index
              /\ index < Len(tokens)
    /\ (pc = "shunting_yard_while" /\ pc' # "evaluate_for") =>
          (Len(operator_stack) - Len(operator_stack')) \in 0..1

\* an iteration of evaluate_postfix's for loop pops two values at most
EvaluatorPopsBounded ==
    (pc = "evaluate_for" /\ index' = index + 1) =>
        LET pushed == IF error' = None THEN 1 ELSE 0
            pops == Len(stack) + pushed - Len(stack')
        IN  pops \in 0..2 /\ index < Len(postfix)

\* C20: each iteration of tokenize moves the cursor forward, each token
\* taken by shunting_yard and by evaluate_postfix pops a bounded number of
\* items, and a string whose tokenization has started always comes to a
\* result or to an exception.
C20_EveryStageTerminates ==
    /\ [][CursorAdvances /\ ConverterPopsBounded /\ EvaluatorPopsBounded]_vars
    /\ (pc = "tokenize_while") ~> (pc \in {"returned", "raised"})

\* "-2-2" has gone through the three loops (the "-" popped the "~") and
\* has its result
C20_Witness ==
    /\ pc = "returned"
    /\ expression = << "-", "2", "-", "2" >>
    /\ postfix = << << "2" >>, << "~" >>, << "2" >>, << "-" >> >>
    /\ result = Neg(Float(<< "4" >>))
    /\ error = None

====
